---- MODULE Spec2Model ----
(***************************************************************************)
(* MonitoringService (src/monitoring_service.py): the engine's start() and *)
(* stop(), the reachability loop (_ping_loop) with its outage tracker, the *)
(* throughput loop (_speed_loop), the SessionRecorder and the persistence  *)
(* of the session file and the index.                                      *)
(*                                                                         *)
(* Threads are interleaved at the granularity of the statements of the     *)
(* source that touch shared state.  Python objects that are shared by      *)
(* reference (OutageEvent) live in a heap, outage_objs, and are named by   *)
(* their position in it.                                                   *)
(***************************************************************************)
EXTENDS Integers, Sequences, FiniteSets, TLC

\* ------------------------------------------------------------------ bounds
MaxPings == 3
MaxSpeeds == 1
MaxTime == 1
MaxCalls == 3
MaxThreshold == 2

\* ------------------------------------------------------------- constants
\* Optional[datetime] = None
NoTime == -1
\* Optional[Thread] / Optional[OutageEvent] = None
NoRef == 0
\* Optional[str] = None (distinct from every message, the empty one included)
NoError == "<None>"
\* Optional[float] = None
NoLatency == -1
\* clock ticks per second: strftime("%Y%m%dT%H%M%SZ") drops what is below a second
TicksPerSecond == 2

Max2(a, b) == IF a >= b THEN a ELSE b

VARIABLES
    \* configuration (MonitoringService.__init__)
    consecutive_failure_threshold, speed_blob_url, ping_probe,
    \* the front end: the thread it calls start() on
    start_thread,
    \* engine state
    stop_event, ping_thread, speed_thread,
    total_pings, success_pings, failed_pings,
    consecutive_failures, current_outage, failure_streak_start,
    session_started_at,
    \* heap of OutageEvent objects
    outage_objs,
    \* SessionRecorder
    rec_pings, rec_speeds, rec_outages,
    \* threads: position and locals of every _ping_loop / _speed_loop thread
    ping_pc, ping_local, speed_pc,
    \* the caller's thread: its position inside start() / stop()
    caller_pc,
    \* environment: the clock and the sessions directory
    now, files, index,
    \* a caller of recorder.snapshot(): the dict it was handed and still holds
    held,
    \* history: the API calls made, the file names this engine wrote, the
    \* number of runs of _persist_session past its guard
    api_log, written, persist_count

config_vars == <<consecutive_failure_threshold, speed_blob_url, ping_probe, start_thread>>
counter_vars == <<total_pings, success_pings, failed_pings>>
tracker_vars == <<consecutive_failures, current_outage, failure_streak_start>>
recorder_vars == <<rec_pings, rec_speeds, rec_outages>>
thread_vars == <<ping_pc, ping_local, speed_pc>>
disk_vars == <<files, index, written, persist_count>>
vars == <<consecutive_failure_threshold, speed_blob_url, ping_probe, start_thread,
          stop_event, ping_thread,
          speed_thread, total_pings, success_pings, failed_pings,
          consecutive_failures, current_outage, failure_streak_start,
          session_started_at, outage_objs, rec_pings, rec_speeds, rec_outages,
          ping_pc, ping_local, speed_pc, caller_pc, now, files, index, held,
          api_log, written, persist_count>>

Threads == 1..MaxCalls
\* the threads that call the engine: 1 calls stop() (the main thread of
\* quickstart_mac.py, the UI thread of win_app_main.py); start() is called by
\* start_thread, which is 1 as well (quickstart_mac.py) or the background
\* thread 2 (win_app_main.py, MonitorApp._run_monitor)
Callers == {1, 2}

\* datetime.utcnow(): the clock does not run backwards; two reads may agree
UtcNow == {t \in {now, now + 1} : t <= MaxTime}

\* ------------------------------------------------------------ probe outcomes
\* ping_probe(target, timeout): a latency, None, TimeoutError, another Exception.
\* The platform adapters' probes (default_ping_probe, windows_ping_probe) catch
\* every exception and return None; only an injected probe can raise.
Latencies == {7}
PlatformOutcomes ==
    [kind : {"latency"}, latency_ms : Latencies, message : {NoError}]
    \cup [kind : {"none"}, latency_ms : {NoLatency}, message : {NoError}]
InjectedOutcomes ==
    PlatformOutcomes
    \cup [kind : {"timeout"}, latency_ms : {NoLatency}, message : {NoError}]
    \cup [kind : {"error"}, latency_ms : {NoLatency}, message : {"boom"}]
ProbeOutcomes == IF ping_probe = "platform" THEN PlatformOutcomes ELSE InjectedOutcomes

\* the locals of an iteration; outcome is what the probe of the iteration did
NoOutcome == [kind |-> "unprobed", latency_ms |-> NoLatency, message |-> NoError]
NoLocal == [sample_time |-> NoTime, success |-> FALSE, timeout |-> FALSE,
            latency_ms |-> NoLatency, error |-> NoError, outcome |-> NoOutcome]


\* ------------------------------------------------------------- the disk
\* strftime("%Y%m%dT%H%M%SZ") of the session start: the second it falls in
SessionId(started) == started \div TicksPerSecond

\* what index.json holds before the engine runs: nothing, text json.loads
\* rejects, JSON that is no object, or an object of earlier sessions' digests
OldDigest(id) == [file |-> id, start |-> id * TicksPerSecond, end |-> id * TicksPerSecond,
                   duration_seconds |-> 0, uptime_ratio |-> <<0, 1>>]
OldSummary(id) == [id |-> id, start |-> id * TicksPerSecond, end |-> id * TicksPerSecond,
                   duration_seconds |-> 0, uptime_ratio |-> <<0, 1>>,
                   interruption_count |-> 0, interruption_durations |-> <<>>,
                   total_pings |-> 0, successful_pings |-> 0, failed_pings |-> 0,
                   pings |-> <<>>, speed_samples |-> <<>>, outages |-> <<>>]
OldIds == {-1, 0}
IndexMissing == [exists |-> FALSE, parsable |-> FALSE, mapping |-> FALSE, entries |-> <<>>]
IndexUnparsable == [exists |-> TRUE, parsable |-> FALSE, mapping |-> FALSE, entries |-> <<>>]
IndexNotMapping == [exists |-> TRUE, parsable |-> TRUE, mapping |-> FALSE, entries |-> <<>>]
IndexOld == [exists |-> TRUE, parsable |-> TRUE, mapping |-> TRUE,
             entries |-> [i \in OldIds |-> OldDigest(i)]]
InitialIndexes == {IndexMissing, IndexUnparsable, IndexNotMapping, IndexOld}

\* no snapshot taken yet
NoSnapshot == [taken |-> FALSE]

\* ------------------------------------------------------------------ Init
\* MonitoringService.__init__: max(1, consecutive_failure_threshold)
ClampThreshold(n) == Max2(1, n)

Constructed ==
    /\ \E n \in 0..MaxThreshold : consecutive_failure_threshold = ClampThreshold(n)
    /\ speed_blob_url \in BOOLEAN
    /\ ping_probe \in {"platform", "injected"}
    /\ start_thread \in Callers
    /\ stop_event = FALSE
    /\ ping_thread = NoRef
    /\ speed_thread = NoRef
    /\ total_pings = 0
    /\ success_pings = 0
    /\ failed_pings = 0
    /\ consecutive_failures = 0
    /\ current_outage = NoRef
    /\ failure_streak_start = NoTime
    /\ session_started_at = NoTime
    /\ outage_objs = <<>>
    /\ rec_pings = <<>>
    /\ rec_speeds = <<>>
    /\ rec_outages = <<>>
    /\ ping_pc = [t \in Threads |-> "unborn"]
    /\ ping_local = [t \in Threads |-> NoLocal]
    /\ speed_pc = [t \in Threads |-> "unborn"]
    /\ caller_pc = [c \in Callers |-> "idle"]
    /\ now = 0
    /\ index \in InitialIndexes
    /\ files = IF index.mapping THEN [i \in OldIds |-> OldSummary(i)] ELSE <<>>
    /\ held = NoSnapshot
    /\ api_log = <<>>
    /\ written = {}
    /\ persist_count = 0

\* the engine with the platform's own probe and no transfer endpoint
\* (speed_blob_url=None, the constructor's default)
Init == Constructed /\ start_thread = 1 /\ ping_probe = "platform" /\ ~speed_blob_url

\* Thread.is_alive(): started and not yet returned from its target
PingAlive(t) == ping_pc[t] \notin {"unborn", "new", "done"}
SpeedAlive(t) == speed_pc[t] \notin {"unborn", "new", "done"}

\* ------------------------------------------------------- SessionRecorder
record_pingMutant(sample) ==
    rec_pings' = IF sample.success THEN Append(rec_pings, sample) ELSE rec_pings
record_ping(sample) == rec_pings' = Append(rec_pings, sample)
record_speed(sample) == rec_speeds' = Append(rec_speeds, sample)
record_outage(ref) == rec_outages' = Append(rec_outages, ref)
snapshot == [pings |-> rec_pings, speeds |-> rec_speeds, outages |-> rec_outages]

\* list(self.pings): a list object of its own holding the same items; a list
\* object handed out is either such a copy or the recorder's own list
ListMutant(items) == [own |-> FALSE, items |-> items]
List(items) == [own |-> TRUE, items |-> items]
\* what reading a list object gives now; live is the recorder's list of that kind
Contents(l, live) == IF l.own THEN l.items ELSE live

\* snapshot = monitor.recorder.snapshot()  (a caller outside the engine, at any
\* time); seen is what the OutageEvent objects of the snapshot held then
TakeSnapshot ==
    /\ held = NoSnapshot
    /\ held' = [taken |-> TRUE,
                pings |-> List(snapshot.pings),
                speeds |-> List(snapshot.speeds),
                outages |-> List(snapshot.outages),
                seen |-> [i \in DOMAIN snapshot.outages |-> outage_objs[snapshot.outages[i]]]]
    /\ UNCHANGED <<config_vars, stop_event, ping_thread, speed_thread, counter_vars,
                   tracker_vars, session_started_at, outage_objs, recorder_vars,
                   thread_vars, caller_pc, now, disk_vars, api_log>>

\* --------------------------------------------------------- _ping_loop
PingInFlight == {t \in Threads : ping_pc[t] \in {"count", "track", "record"}}

\* the try/except around self.ping_probe(self.target, self.ping_timeout)
ProbeResultMutant(l, o) ==
    CASE o.kind = "latency" -> [l EXCEPT !.latency_ms = o.latency_ms, !.success = TRUE]
      [] o.kind = "none" -> [l EXCEPT !.success = FALSE]
      [] o.kind = "timeout" -> [l EXCEPT !.success = FALSE, !.error = "timeout"]
      [] o.kind = "error" -> [l EXCEPT !.success = FALSE, !.error = o.message]
ProbeResult(l, o) ==
    CASE o.kind = "latency" -> [l EXCEPT !.latency_ms = o.latency_ms, !.success = TRUE]
      [] o.kind = "none" -> [l EXCEPT !.success = FALSE]
      [] o.kind = "timeout" -> [l EXCEPT !.timeout = TRUE, !.success = FALSE, !.error = "timeout"]
      [] o.kind = "error" -> [l EXCEPT !.success = FALSE, !.error = o.message]

\* while not self._stop_event.is_set(): sample_time = datetime.utcnow(); the probe.
\* The probe touches nothing shared, so the loop test, the clock read and the
\* probe are one step; a probe "in flight" is a thread at "count".
PingProbe(t) ==
    /\ ping_pc[t] = "check"
    /\ IF stop_event
       THEN /\ ping_pc' = [ping_pc EXCEPT ![t] = "done"]
            /\ UNCHANGED <<ping_local, now>>
       ELSE /\ Len(rec_pings) + Cardinality(PingInFlight) < MaxPings
            /\ \E st \in UtcNow, o \in ProbeOutcomes :
                 /\ now' = st
                 /\ ping_local' = [ping_local EXCEPT ![t] =
                                     ProbeResult([NoLocal EXCEPT !.sample_time = st,
                                                                 !.outcome = o], o)]
            /\ ping_pc' = [ping_pc EXCEPT ![t] = "count"]
    /\ UNCHANGED <<config_vars, held, stop_event, ping_thread, speed_thread, counter_vars,
                   tracker_vars, session_started_at, outage_objs, recorder_vars,
                   speed_pc, caller_pc, disk_vars, api_log>>

\* self.total_pings += 1
PingCount(t) ==
    /\ ping_pc[t] = "count"
    /\ total_pings' = total_pings + 1
    /\ ping_pc' = [ping_pc EXCEPT ![t] = "track"]
    /\ UNCHANGED <<config_vars, held, stop_event, ping_thread, speed_thread, success_pings,
                   failed_pings, tracker_vars, session_started_at, outage_objs,
                   recorder_vars, ping_local, speed_pc, caller_pc, now, disk_vars,
                   api_log>>

\* OutageEvent(start=..., failure_count=...): end defaults to None
OutageEvent(start, failure_count) ==
    [start |-> start, end |-> NoTime, failure_count |-> failure_count]

\* outage_start = self._failure_streak_start or sample_time
OutageStartMutant(streak_start, sample_time) == sample_time
OutageStart(streak_start, sample_time) ==
    IF streak_start # NoTime THEN streak_start ELSE sample_time

\* not self._current_outage and self._consecutive_failures >= self.consecutive_failure_threshold
OpensOutageMutant(outage, failures) ==
    outage = NoRef /\ failures > consecutive_failure_threshold
OpensOutage(outage, failures) ==
    outage = NoRef /\ failures >= consecutive_failure_threshold

\* self._current_outage.end = ...  (in the loop and in _close_active_outage)
CloseOutageMutant(ref, t) == outage_objs
CloseOutageCountsMutant(ref, t) ==
    [outage_objs EXCEPT ![ref].end = t, ![ref].failure_count = @ + 1]
CloseOutage(ref, t) == [outage_objs EXCEPT ![ref].end = t]

\* self.failed_pings += 1
CountFailureMutant == failed_pings
CountFailure == failed_pings + 1

\* if success: ... (the success branch of the iteration)
TrackSuccess(t) ==
    /\ success_pings' = success_pings + 1
    /\ consecutive_failures' = 0
    /\ failure_streak_start' = NoTime
    /\ IF current_outage # NoRef
       THEN /\ outage_objs' = CloseOutage(current_outage, ping_local[t].sample_time)
            /\ record_outage(current_outage)
            /\ current_outage' = NoRef
       ELSE UNCHANGED <<outage_objs, rec_outages, current_outage>>
    /\ UNCHANGED failed_pings

\* else: ... (the failure branch of the iteration)
TrackFailure(t) ==
    /\ failed_pings' = CountFailure
    /\ consecutive_failures' = consecutive_failures + 1
    /\ failure_streak_start' =
         IF failure_streak_start = NoTime THEN ping_local[t].sample_time
         ELSE failure_streak_start
    /\ IF OpensOutage(current_outage, consecutive_failures')
       THEN /\ outage_objs' = Append(outage_objs,
                 OutageEvent(OutageStart(failure_streak_start', ping_local[t].sample_time),
                             consecutive_failures'))
            /\ current_outage' = Len(outage_objs) + 1
       ELSE /\ current_outage' = current_outage
            /\ outage_objs' =
                 IF current_outage # NoRef
                 THEN [outage_objs EXCEPT ![current_outage].failure_count = consecutive_failures']
                 ELSE outage_objs
    /\ UNCHANGED <<success_pings, rec_outages>>

PingTrack(t) ==
    /\ ping_pc[t] = "track"
    /\ IF ping_local[t].success THEN TrackSuccess(t) ELSE TrackFailure(t)
    /\ ping_pc' = [ping_pc EXCEPT ![t] = "record"]
    /\ UNCHANGED <<config_vars, held, stop_event, ping_thread, speed_thread, total_pings,
                   session_started_at, rec_pings, rec_speeds, ping_local, speed_pc,
                   caller_pc, now, disk_vars, api_log>>

\* PingSample(timestamp=sample_time, ..., success=success, timeout=timeout, error=error)
PingSample(l) ==
    [timestamp |-> l.sample_time, latency_ms |-> l.latency_ms, success |-> l.success,
     timeout |-> l.timeout, error |-> l.error]

\* self.recorder.record_ping(...); self._stop_event.wait(sleep_for)
PingRecord(t) ==
    /\ ping_pc[t] = "record"
    /\ record_ping(PingSample(ping_local[t]))
    /\ ping_local' = [ping_local EXCEPT ![t] = NoLocal]
    /\ ping_pc' = [ping_pc EXCEPT ![t] = "check"]
    /\ UNCHANGED <<config_vars, held, stop_event, ping_thread, speed_thread, counter_vars,
                   tracker_vars, session_started_at, outage_objs, rec_speeds, rec_outages,
                   speed_pc, caller_pc, now, disk_vars, api_log>>

\* -------------------------------------------------------- _speed_loop
\* downloader(...) / continuous_downloader(...): a SpeedSample, or an Exception
DownloadOutcomes ==
    [kind : {"sample"}, throughput_mbps : {8}, message : {NoError}]
    \cup [kind : {"raise"}, throughput_mbps : {0}, message : {"", "boom"}]

\* the try/except/else of _run_speed_sample
SpeedSample(sample_time, o) ==
    IF o.kind = "raise"
    THEN [timestamp |-> sample_time, throughput_mbps |-> 0, error |-> o.message]
    ELSE [timestamp |-> sample_time, throughput_mbps |-> o.throughput_mbps, error |-> NoError]

run_speed_sampleMutant ==
    \E st \in UtcNow, o \in DownloadOutcomes :
        /\ now' = st
        /\ record_speed(SpeedSample(st, o))
run_speed_sample ==
    IF ~speed_blob_url
    THEN UNCHANGED <<rec_speeds, now>>
    ELSE \E st \in UtcNow, o \in DownloadOutcomes :
           /\ now' = st
           /\ record_speed(SpeedSample(st, o))

\* self._run_speed_sample()  (the initial speed check)
SpeedFirst(t) ==
    /\ speed_pc[t] = "first"
    /\ run_speed_sample
    /\ speed_pc' = [speed_pc EXCEPT ![t] = "wait"]
    /\ UNCHANGED <<config_vars, held, stop_event, ping_thread, speed_thread, counter_vars,
                   tracker_vars, session_started_at, outage_objs, rec_pings, rec_outages,
                   ping_pc, ping_local, caller_pc, disk_vars, api_log>>

\* the samples recorded by the while loops of the throughput threads: all the
\* samples but the initial one of each thread
PeriodicSamples ==
    IF speed_blob_url
    THEN Len(rec_speeds) - Cardinality({t \in Threads : speed_pc[t] \in {"wait", "done"}})
    ELSE 0

\* while not self._stop_event.wait(self.speed_interval): self._run_speed_sample()
\* (the samples of this loop are bounded; the initial one of a thread is not)
SpeedWait(t) ==
    /\ speed_pc[t] = "wait"
    /\ IF stop_event
       THEN /\ speed_pc' = [speed_pc EXCEPT ![t] = "done"]
            /\ UNCHANGED <<rec_speeds, now>>
       ELSE /\ PeriodicSamples < MaxSpeeds
            /\ run_speed_sample
            /\ UNCHANGED speed_pc
    /\ UNCHANGED <<config_vars, held, stop_event, ping_thread, speed_thread, counter_vars,
                   tracker_vars, session_started_at, outage_objs, rec_pings, rec_outages,
                   ping_pc, ping_local, caller_pc, disk_vars, api_log>>

\* ------------------------------------------------------------ start()
\* if self._ping_thread and self._ping_thread.is_alive(): return
AlreadyRunningMutant == FALSE
AlreadyRunning == ping_thread # NoRef /\ PingAlive(ping_thread)

ThreadsCreated == {t \in Threads : ping_pc[t] # "unborn"}

\* the call of start() and its guard
StartCall(c) ==
    /\ c = start_thread
    /\ caller_pc[c] = "idle"
    /\ Len(api_log) < MaxCalls
    /\ api_log' = Append(api_log, "start")
    /\ caller_pc' = [caller_pc EXCEPT ![c] =
                       IF AlreadyRunning THEN "start_return" ELSE "start_clear"]
    /\ UNCHANGED <<config_vars, held, stop_event, ping_thread, speed_thread, counter_vars,
                   tracker_vars, session_started_at, outage_objs, recorder_vars,
                   thread_vars, now, disk_vars>>

\* return  (start() on a running engine)
StartReturn(c) ==
    /\ caller_pc[c] = "start_return"
    /\ caller_pc' = [caller_pc EXCEPT ![c] = "idle"]
    /\ UNCHANGED <<config_vars, held, stop_event, ping_thread, speed_thread, counter_vars,
                   tracker_vars, session_started_at, outage_objs, recorder_vars,
                   thread_vars, now, disk_vars, api_log>>

\* self._stop_event.clear()
StartClear(c) ==
    /\ caller_pc[c] = "start_clear"
    /\ stop_event' = FALSE
    /\ caller_pc' = [caller_pc EXCEPT ![c] = "start_time"]
    /\ UNCHANGED <<config_vars, held, ping_thread, speed_thread, counter_vars, tracker_vars,
                   session_started_at, outage_objs, recorder_vars, thread_vars, now,
                   disk_vars, api_log>>

\* if self.session_started_at is None: self.session_started_at = datetime.utcnow()
StartTime(c) ==
    /\ caller_pc[c] = "start_time"
    /\ IF session_started_at = NoTime
       THEN \E st \in UtcNow : now' = st /\ session_started_at' = st
       ELSE UNCHANGED <<now, session_started_at>>
    /\ caller_pc' = [caller_pc EXCEPT ![c] = "start_create"]
    /\ UNCHANGED <<config_vars, held, stop_event, ping_thread, speed_thread, counter_vars,
                   tracker_vars, outage_objs, recorder_vars, thread_vars, disk_vars,
                   api_log>>

\* self._ping_thread = threading.Thread(...); self._speed_thread = threading.Thread(...)
StartCreate(c) ==
    /\ caller_pc[c] = "start_create"
    /\ LET t == Cardinality(ThreadsCreated) + 1 IN
         /\ t \in Threads
         /\ ping_thread' = t
         /\ speed_thread' = t
         /\ ping_pc' = [ping_pc EXCEPT ![t] = "new"]
         /\ speed_pc' = [speed_pc EXCEPT ![t] = "new"]
    /\ caller_pc' = [caller_pc EXCEPT ![c] = "start_ping"]
    /\ UNCHANGED <<config_vars, held, stop_event, counter_vars, tracker_vars,
                   session_started_at, outage_objs, recorder_vars, ping_local, now,
                   disk_vars, api_log>>

\* self._ping_thread.start()
StartPing(c) ==
    /\ caller_pc[c] = "start_ping"
    /\ ping_pc[ping_thread] = "new"
    /\ ping_pc' = [ping_pc EXCEPT ![ping_thread] = "check"]
    /\ caller_pc' = [caller_pc EXCEPT ![c] = "start_speed"]
    /\ UNCHANGED <<config_vars, held, stop_event, ping_thread, speed_thread, counter_vars,
                   tracker_vars, session_started_at, outage_objs, recorder_vars,
                   ping_local, speed_pc, now, disk_vars, api_log>>

\* self._speed_thread.start()
StartSpeed(c) ==
    /\ caller_pc[c] = "start_speed"
    /\ speed_pc[speed_thread] = "new"
    /\ speed_pc' = [speed_pc EXCEPT ![speed_thread] = "first"]
    /\ caller_pc' = [caller_pc EXCEPT ![c] = "idle"]
    /\ UNCHANGED <<config_vars, held, stop_event, ping_thread, speed_thread, counter_vars,
                   tracker_vars, session_started_at, outage_objs, recorder_vars,
                   ping_pc, ping_local, now, disk_vars, api_log>>

\* ------------------------------------------------------------- stop()
\* the call of stop(): self._stop_event.set()
StopCallMutant(c) ==
    /\ c = 1
    /\ caller_pc[c] = "idle"
    /\ Len(api_log) < MaxCalls
    /\ api_log' = Append(api_log, "stop")
    /\ caller_pc' = [caller_pc EXCEPT ![c] = "stop_join_ping"]
    /\ UNCHANGED <<config_vars, held, stop_event, ping_thread, speed_thread, counter_vars,
                   tracker_vars, session_started_at, outage_objs, recorder_vars,
                   thread_vars, now, disk_vars>>
StopCall(c) ==
    /\ c = 1
    /\ caller_pc[c] = "idle"
    /\ Len(api_log) < MaxCalls
    /\ api_log' = Append(api_log, "stop")
    /\ stop_event' = TRUE
    /\ caller_pc' = [caller_pc EXCEPT ![c] = "stop_join_ping"]
    /\ UNCHANGED <<config_vars, held, ping_thread, speed_thread, counter_vars, tracker_vars,
                   session_started_at, outage_objs, recorder_vars, thread_vars, now,
                   disk_vars>>

\* Thread.join(): returns once the thread has ended; raises RuntimeError, which
\* leaves stop(), on a thread that was created and not yet started
Joined(thread, pc) == IF thread = NoRef THEN TRUE ELSE pc[thread] = "done"
JoinRaises(thread, pc) == IF thread = NoRef THEN FALSE ELSE pc[thread] = "new"

\* if self._ping_thread: self._ping_thread.join()
StopJoinPing(c) ==
    /\ caller_pc[c] = "stop_join_ping"
    /\ Joined(ping_thread, ping_pc) \/ JoinRaises(ping_thread, ping_pc)
    /\ caller_pc' = [caller_pc EXCEPT ![c] =
                       IF JoinRaises(ping_thread, ping_pc) THEN "idle" ELSE "stop_join_speed"]
    /\ UNCHANGED <<config_vars, held, stop_event, ping_thread, speed_thread, counter_vars,
                   tracker_vars, session_started_at, outage_objs, recorder_vars,
                   thread_vars, now, disk_vars, api_log>>

\* if self._speed_thread: self._speed_thread.join()
StopJoinSpeed(c) ==
    /\ caller_pc[c] = "stop_join_speed"
    /\ Joined(speed_thread, speed_pc) \/ JoinRaises(speed_thread, speed_pc)
    /\ caller_pc' = [caller_pc EXCEPT ![c] =
                       IF JoinRaises(speed_thread, speed_pc) THEN "idle" ELSE "stop_close"]
    /\ UNCHANGED <<config_vars, held, stop_event, ping_thread, speed_thread, counter_vars,
                   tracker_vars, session_started_at, outage_objs, recorder_vars,
                   thread_vars, now, disk_vars, api_log>>

\* self._close_active_outage()
close_active_outageMutant ==
    IF current_outage # NoRef
    THEN \E st \in UtcNow :
           /\ now' = st
           /\ outage_objs' = CloseOutage(current_outage, st)
           /\ current_outage' = NoRef
           /\ UNCHANGED rec_outages
    ELSE UNCHANGED <<now, outage_objs, rec_outages, current_outage>>
close_active_outage ==
    IF current_outage # NoRef
    THEN \E st \in UtcNow :
           /\ now' = st
           /\ outage_objs' = CloseOutage(current_outage, st)
           /\ record_outage(current_outage)
           /\ current_outage' = NoRef
    ELSE UNCHANGED <<now, outage_objs, rec_outages, current_outage>>

StopClose(c) ==
    /\ caller_pc[c] = "stop_close"
    /\ close_active_outage
    /\ caller_pc' = [caller_pc EXCEPT ![c] = "stop_persist"]
    /\ UNCHANGED <<config_vars, held, stop_event, ping_thread, speed_thread, counter_vars,
                   consecutive_failures, failure_streak_start, session_started_at,
                   rec_pings, rec_speeds, thread_vars, disk_vars, api_log>>

\* ------------------------------------------------- _persist_session()
Upsert(f, k, v) == [x \in DOMAIN f \cup {k} |-> IF x = k THEN v ELSE f[x]]

\* for outage in outages: if outage.end: append((outage.end - outage.start).total_seconds())
InterruptionDurationsMutant(refs) ==
    SelectSeq([i \in 1..Len(refs) |-> outage_objs[refs[i]].end - outage_objs[refs[i]].start],
              LAMBDA d : d # 0)
RECURSIVE InterruptionDurations(_)
InterruptionDurations(refs) ==
    IF refs = <<>> THEN <<>>
    ELSE LET o == outage_objs[Head(refs)] IN
         (IF o.end # NoTime THEN <<o.end - o.start>> ELSE <<>>)
             \o InterruptionDurations(Tail(refs))

\* (self.success_pings / self.total_pings) if self.total_pings else 0.0,
\* kept as the fraction <<numerator, denominator>>
UptimeRatioMutant == IF total_pings # 0 THEN <<success_pings, total_pings>> ELSE <<1, 1>>
UptimeRatio == IF total_pings # 0 THEN <<success_pings, total_pings>> ELSE <<0, 1>>

\* SessionSummary(...) as to_dict() serializes it
SessionSummary(end_time, snap) ==
    [id |-> SessionId(session_started_at),
     start |-> session_started_at,
     end |-> end_time,
     duration_seconds |-> Max2(end_time - session_started_at, 0),
     uptime_ratio |-> UptimeRatio,
     interruption_count |-> Len(snap.outages),
     interruption_durations |-> InterruptionDurations(snap.outages),
     total_pings |-> total_pings,
     successful_pings |-> success_pings,
     failed_pings |-> failed_pings,
     pings |-> snap.pings,
     speed_samples |-> snap.speeds,
     outages |-> [i \in 1..Len(snap.outages) |-> outage_objs[snap.outages[i]]]]

\* the digest _update_index stores under the session id
IndexDigest(session) ==
    [file |-> session.id, start |-> session.start, end |-> session.end,
     duration_seconds |-> session.duration_seconds, uptime_ratio |-> session.uptime_ratio]

\* _update_index: json.loads raising JSONDecodeError leaves index = {}; a parsed
\* value that is no dict makes index[session.session_id] = ... raise TypeError,
\* which nothing catches, so index.json is left as it was
IndexUpdateRaises == index.exists /\ index.parsable /\ ~index.mapping
update_index(session) ==
    IF IndexUpdateRaises
    THEN UNCHANGED index
    ELSE LET read == IF index.exists /\ index.parsable THEN index.entries ELSE <<>> IN
         index' = [exists |-> TRUE, parsable |-> TRUE, mapping |-> TRUE,
                   entries |-> Upsert(read, session.id, IndexDigest(session))]

\* if not self.session_started_at: return
PersistSkippedMutant == FALSE
PersistSkipped == session_started_at = NoTime

persist_session ==
    IF PersistSkipped
    THEN UNCHANGED <<now, disk_vars>>
    ELSE \E end_time \in UtcNow :
           LET session == SessionSummary(end_time, snapshot) IN
             /\ now' = end_time
             /\ persist_count' = persist_count + 1
             /\ files' = Upsert(files, session.id, session)
             /\ written' = written \cup {session.id}
             /\ update_index(session)

\* self._persist_session(), then stop() returns (or the TypeError leaves it)
StopPersist(c) ==
    /\ caller_pc[c] = "stop_persist"
    /\ persist_session
    /\ caller_pc' = [caller_pc EXCEPT ![c] = "idle"]
    /\ UNCHANGED <<config_vars, held, stop_event, ping_thread, speed_thread, counter_vars,
                   tracker_vars, session_started_at, outage_objs, recorder_vars,
                   thread_vars, api_log>>

\* ------------------------------------------------------ specification
Next ==
    \/ \E t \in Threads : PingProbe(t)
    \/ \E t \in Threads : PingCount(t)
    \/ \E t \in Threads : PingTrack(t)
    \/ \E t \in Threads : PingRecord(t)
    \/ \E t \in Threads : SpeedFirst(t)
    \/ \E t \in Threads : SpeedWait(t)
    \/ \E c \in Callers : StartCall(c)
    \/ \E c \in Callers : StartReturn(c)
    \/ \E c \in Callers : StartClear(c)
    \/ \E c \in Callers : StartTime(c)
    \/ \E c \in Callers : StartCreate(c)
    \/ \E c \in Callers : StartPing(c)
    \/ \E c \in Callers : StartSpeed(c)
    \/ \E c \in Callers : StopCall(c)
    \/ \E c \in Callers : StopJoinPing(c)
    \/ \E c \in Callers : StopJoinSpeed(c)
    \/ \E c \in Callers : StopClose(c)
    \/ \E c \in Callers : StopPersist(c)

Spec == Init /\ [][Next]_vars

\* the engine with a transfer endpoint configured (speed_blob_url given)
InitSpeed == Constructed /\ start_thread = 1 /\ ping_probe = "platform" /\ speed_blob_url
SpecSpeed == InitSpeed /\ [][Next]_vars

\* the engine with an injected probe (ping_probe given), which may raise
InitInjected ==
    /\ Constructed
    /\ start_thread = 1
    /\ ping_probe = "injected"
    /\ ~speed_blob_url
    /\ index = IndexMissing
SpecInjected == InitInjected /\ [][Next]_vars

\* the engine with a transfer endpoint, scheduled fairly: a thread that can
\* take a step (a loop thread whose probe has returned, a caller inside
\* start() or stop()) takes it in the end; nobody has to call start() or stop()
InitFair ==
    /\ Constructed
    /\ start_thread = 1
    /\ ping_probe = "platform"
    /\ speed_blob_url
    /\ consecutive_failure_threshold = 1
    /\ index = IndexMissing
Fairness ==
    /\ \A t \in Threads :
         /\ WF_vars(PingProbe(t)) /\ WF_vars(PingCount(t))
         /\ WF_vars(PingTrack(t)) /\ WF_vars(PingRecord(t))
         /\ WF_vars(SpeedFirst(t)) /\ WF_vars(SpeedWait(t))
    /\ \A c \in Callers :
         /\ WF_vars(StartReturn(c)) /\ WF_vars(StartClear(c)) /\ WF_vars(StartTime(c))
         /\ WF_vars(StartCreate(c)) /\ WF_vars(StartPing(c)) /\ WF_vars(StartSpeed(c))
         /\ WF_vars(StopJoinPing(c)) /\ WF_vars(StopJoinSpeed(c))
         /\ WF_vars(StopClose(c)) /\ WF_vars(StopPersist(c))
SpecFair == InitFair /\ [][Next]_vars /\ Fairness

\* the engine with and without a transfer endpoint
InitThroughput ==
    /\ Constructed
    /\ start_thread = 1
    /\ ping_probe = "platform"
    /\ consecutive_failure_threshold = 1
    /\ index = IndexMissing
SpecThroughput == InitThroughput /\ [][Next]_vars

\* the engine as win_app_main.py drives it: start() runs on a background
\* thread, stop() on the UI thread, and the two calls may overlap
InitThreaded ==
    /\ Constructed
    /\ start_thread = 2
    /\ ping_probe = "platform"
    /\ ~speed_blob_url
    /\ consecutive_failure_threshold = 1
    /\ index = IndexMissing
SpecThreaded == InitThreaded /\ [][Next]_vars

\* the engine with a transfer endpoint and a caller that takes a snapshot of
\* the recorder at a time of its choice
InitStore ==
    /\ Constructed
    /\ start_thread = 1
    /\ ping_probe = "platform"
    /\ speed_blob_url
    /\ consecutive_failure_threshold = 1
    /\ index = IndexMissing
NextStore == Next \/ TakeSnapshot
SpecStore == InitStore /\ [][NextStore]_vars

\* ==================================================================
\* Properties
\* ==================================================================
Last(q) == q[Len(q)]
StartsCalled == Cardinality({i \in DOMAIN api_log : api_log[i] = "start"})
CallerIdle == \A c \in Callers : caller_pc[c] = "idle"
PingRunning == {t \in Threads : PingAlive(t)}
SpeedRunning == {t \in Threads : SpeedAlive(t)}
\* the threads that have done total_pings += 1 and not yet the success/failed update
MidUpdate == {t \in Threads : ping_pc[t] = "track"}
\* the samples of the probes the tracker has been fed: the recorded ones, then
\* the one the tracker has handled and record_ping has not yet stored
Tracked(t) == IF ping_pc[t] = "record" THEN <<PingSample(ping_local[t])>> ELSE <<>>
RECURSIVE TrackedBy(_)
TrackedBy(ts) ==
    IF ts = {} THEN <<>>
    ELSE LET t == CHOOSE x \in ts : TRUE IN Tracked(t) \o TrackedBy(ts \ {t})
Fed == rec_pings \o TrackedBy(Threads)
\* the timestamp of the first failure after the most recent success in q
RECURSIVE StreakStart(_)
StreakStart(q) ==
    IF q = <<>> \/ Last(q).success THEN NoTime
    ELSE LET before == StreakStart(SubSeq(q, 1, Len(q) - 1)) IN
         IF before # NoTime THEN before ELSE Last(q).timestamp
\* the number of failures after the most recent success in q
RECURSIVE StreakLength(_)
StreakLength(q) ==
    IF q = <<>> \/ Last(q).success THEN 0
    ELSE 1 + StreakLength(SubSeq(q, 1, Len(q) - 1))

\* ------------------------------------------------------------------ C1
\* C1 (as claimed): total_pings = success_pings + failed_pings in every state
\* another thread can observe, the states between the counter updates of one
\* iteration included.
C1_CountersBalancedAlways == total_pings = success_pings + failed_pings

\* C1 (amended): the counters balance in every state in which the reachability
\* loop is not between total_pings += 1 and its success/failed update; in the
\* states between the two updates total_pings is exactly one ahead.
C1_CountersBalancedAtBoundaries ==
    total_pings = success_pings + failed_pings + Cardinality(MidUpdate)
\* a status display looking now sees total_pings one ahead of the two others
C1_Witness ==
    /\ MidUpdate # {}
    /\ success_pings > 0
    /\ failed_pings > 0
    /\ total_pings = success_pings + failed_pings + 1

\* ------------------------------------------------------------------ C2
\* C2: every OutageEvent in the store has its end set and is not the open
\* outage; an append to the store's outages is of an outage whose end that
\* same step sets.
C2_Closed ==
    \A i \in DOMAIN rec_outages :
        /\ outage_objs[rec_outages[i]].end # NoTime
        /\ rec_outages[i] # current_outage
C2_ClosingRecords ==
    /\ Len(rec_outages') >= Len(rec_outages)
    /\ SubSeq(rec_outages', 1, Len(rec_outages)) = rec_outages
    /\ \A i \in DOMAIN rec_outages' \ DOMAIN rec_outages :
         /\ rec_outages'[i] = current_outage
         /\ outage_objs[rec_outages'[i]].end = NoTime
         /\ outage_objs'[rec_outages'[i]].end # NoTime
\* C2: stored outages are closed, and only the closing step stores one
C2_StoredOutagesClosed == []C2_Closed /\ [][C2_ClosingRecords]_vars
\* one outage closed by a success and one force-closed by stop() are stored
C2_Witness ==
    /\ Len(rec_outages) = 2
    /\ current_outage = NoRef
    /\ persist_count = 1

\* ------------------------------------------------------------------ C3
\* C3: the start of the open outage is the timestamp of the first failed probe
\* after the most recent success (or after session start), and the start of an
\* outage never changes once it is opened.
C3_Backdated ==
    current_outage # NoRef =>
        outage_objs[current_outage].start = StreakStart(Fed)
C3_StartFixed ==
    \A r \in DOMAIN outage_objs : outage_objs'[r].start = outage_objs[r].start
\* C3: an outage starts at the first failure of its streak, for good
C3_StartIsFirstFailure == []C3_Backdated /\ [][C3_StartFixed]_vars
\* an outage whose threshold was crossed later than its streak began
C3_Witness ==
    /\ rec_outages # <<>>
    /\ LET o == outage_objs[rec_outages[1]] IN
         /\ o.start = 0
         /\ o.failure_count >= 2
         /\ \E i \in DOMAIN rec_pings :
              ~rec_pings[i].success /\ rec_pings[i].timestamp > o.start
                  /\ rec_pings[i].timestamp <= o.end

\* ------------------------------------------------------------------ C4
\* C4 (as claimed): with threshold N no outage is open before the N-th
\* consecutive failure of a streak; an outage is opened exactly at the N-th
\* consecutive failure, with failure_count = N; a success that ends a streak of
\* fewer than N failures creates and stores no outage.
C4_NoneBeforeNth ==
    current_outage # NoRef => StreakLength(Fed) >= consecutive_failure_threshold
C4_OpenedAtNth ==
    (current_outage = NoRef /\ current_outage' # NoRef) =>
        /\ StreakLength(Fed') = consecutive_failure_threshold
        /\ outage_objs'[current_outage'].failure_count = consecutive_failure_threshold
C4_ShortStreakDiscarded ==
    (success_pings' # success_pings /\ StreakLength(Fed) < consecutive_failure_threshold) =>
        /\ rec_outages' = rec_outages
        /\ outage_objs' = outage_objs
\* C4 (as claimed): an outage exists from exactly the N-th consecutive failure
C4_ThresholdGatesOutage ==
    []C4_NoneBeforeNth /\ [][C4_OpenedAtNth /\ C4_ShortStreakDiscarded]_vars

\* ------------------------------------------------------------------ C5
\* C5: with threshold 1 (a configured value below 1 is clamped to 1) the step
\* that handles a failed probe leaves an open outage, and the step that handles
\* a successful probe while an outage is open stores that outage with end = the
\* success's sample timestamp and leaves none open.
C5_FailureOpens ==
    failed_pings' # failed_pings =>
        /\ current_outage' # NoRef
        /\ outage_objs'[current_outage'].end = NoTime
        /\ current_outage' \notin {rec_outages'[i] : i \in DOMAIN rec_outages'}
C5_SuccessCloses ==
    (success_pings' # success_pings /\ current_outage # NoRef) =>
        /\ current_outage' = NoRef
        /\ rec_outages' = Append(rec_outages, current_outage)
        /\ \E t \in MidUpdate :
             /\ ping_pc'[t] = "record"
             /\ outage_objs'[current_outage].end = ping_local[t].sample_time
\* C5: with threshold 1 a failure opens an outage at once, the next success closes it
C5_ThresholdOne ==
    [][consecutive_failure_threshold = 1 => (C5_FailureOpens /\ C5_SuccessCloses)]_vars
\* threshold 1: two failures were each followed by a success that closed an outage
C5_Witness ==
    /\ consecutive_failure_threshold = 1
    /\ Len(rec_outages) = 1
    /\ Len(rec_pings) = 2
    /\ ~rec_pings[1].success
    /\ rec_pings[2].success
    /\ outage_objs[rec_outages[1]].end = rec_pings[2].timestamp
    /\ outage_objs[rec_outages[1]].start = rec_pings[1].timestamp
    /\ outage_objs[rec_outages[1]].end > outage_objs[rec_outages[1]].start

\* ------------------------------------------------------------------ C6
\* C6 (as claimed): the summary is computed and the session file and index
\* are written at most once in an engine's lifetime; a second stop() after one
\* start() computes and writes nothing.
C6_PersistedOnce == StartsCalled <= 1 => persist_count <= 1

\* ------------------------------------------------------------------ C7
\* C7 (as claimed): after start(), stop(), stop() the engine has written one
\* session file, named by its session id, and the index holds an entry under
\* that session id.
OwnSessionId == SessionId(session_started_at)
\* C7 (as claimed): one session file and one index entry after stop() twice
C7_OneFileOneEntry ==
    (api_log = <<"start", "stop", "stop">> /\ CallerIdle) =>
        /\ written = {OwnSessionId}
        /\ OwnSessionId \in DOMAIN files
        /\ index.exists /\ index.parsable /\ index.mapping
        /\ OwnSessionId \in DOMAIN index.entries

\* ------------------------------------------------------------------ C8
\* C8 (as claimed): once a stop() that followed a start() has completed, no
\* loop runs again and no new loop thread is created.
Stopped == session_started_at # NoTime /\ persist_count >= 1
C8_NoLoopAfterStopped == Stopped => (PingRunning = {} /\ SpeedRunning = {})
C8_NoThreadAfterStopped == Stopped => ThreadsCreated' = ThreadsCreated
\* C8 (as claimed): Stopped is final, no loop is launched after it
C8_OneShot == []C8_NoLoopAfterStopped /\ [][C8_NoThreadAfterStopped]_vars

\* ------------------------------------------------------------------ C9
\* C9: as long as start() was never called, stop() writes no session file,
\* leaves the index and the directory as they were, records nothing and
\* creates no thread; and the start() that follows such a stop() returns with
\* the cancellation signal clear and both loops running.
C9_NothingDone ==
    StartsCalled = 0 =>
        /\ written = {}
        /\ persist_count = 0
        /\ rec_outages = <<>> /\ rec_pings = <<>> /\ rec_speeds = <<>>
        /\ outage_objs = <<>>
        /\ current_outage = NoRef
        /\ ThreadsCreated = {}
        /\ session_started_at = NoTime
C9_DiskUntouched == StartsCalled' = 0 => UNCHANGED <<files, index>>
C9_StartAfterStopRuns ==
    (/\ api_log = <<"stop", "start">>
     /\ \E c \in Callers : caller_pc[c] = "start_speed" /\ caller_pc'[c] = "idle") =>
        /\ ~stop_event'
        /\ ping_thread' # NoRef /\ PingAlive(ping_thread)'
        /\ speed_thread' # NoRef /\ SpeedAlive(speed_thread)'
\* C9: stop() before start() does nothing, and the start() after it runs the loops
C9_StopBeforeStart ==
    []C9_NothingDone /\ [][C9_DiskUntouched /\ C9_StartAfterStopRuns]_vars
\* stop() came first, then start(), and the reachability loop has probed
C9_Witness ==
    /\ api_log = <<"stop", "start">>
    /\ CallerIdle
    /\ ~stop_event
    /\ PingRunning # {} /\ SpeedRunning # {}
    /\ Len(rec_pings) > 0

\* ------------------------------------------------------------------ C10
\* C10: at most one reachability loop and one throughput loop run at a time;
\* a start() called when the previous call was a start() (the engine runs)
\* takes the early return, and until it has returned the cancellation signal,
\* the thread handles, the set of threads and the session start time stay as
\* they were; the session start time, once set, never changes.
C10_OneLoopEach == Cardinality(PingRunning) <= 1 /\ Cardinality(SpeedRunning) <= 1
C10_RunningStartReturns ==
    \A c \in Callers :
        (/\ caller_pc[c] = "idle" /\ caller_pc'[c] # "idle"
         /\ api_log # <<>> /\ Last(api_log) = "start"
         /\ api_log' = Append(api_log, "start")) => caller_pc'[c] = "start_return"
C10_ReturnChangesNothing ==
    (\E c \in Callers : caller_pc[c] = "start_return" \/ caller_pc'[c] = "start_return") =>
        /\ UNCHANGED <<stop_event, ping_thread, speed_thread, session_started_at>>
        /\ ThreadsCreated' = ThreadsCreated
C10_StartTimeSetOnce ==
    session_started_at # NoTime => session_started_at' = session_started_at
\* C10: start() on a running engine is a no-op; one loop of each kind; start time set once
C10_StartIdempotent ==
    /\ []C10_OneLoopEach
    /\ [][C10_RunningStartReturns /\ C10_ReturnChangesNothing /\ C10_StartTimeSetOnce]_vars
\* start() was called on the running engine and has returned; the loops run on
C10_Witness ==
    /\ api_log = <<"start", "start">>
    /\ CallerIdle
    /\ Cardinality(PingRunning) = 1 /\ Cardinality(SpeedRunning) = 1
    /\ Cardinality(ThreadsCreated) = 1
    /\ ~stop_event
    /\ Len(rec_pings) > 0

\* ------------------------------------------------------------------ C11
\* C11: the summary a stop() computes lists one duration per outage of the
\* store, in the store's order, each the outage's end minus its start; its
\* outages are the store's, all with an end; and every outage the tracker ever
\* opened, the one open when stop() was called included, is among them.
Range(q) == {q[i] : i \in DOMAIN q}
Persists == persist_count' # persist_count
Persisted == files[OwnSessionId]
C11_OnePerOutage ==
    Persists =>
        LET s == Persisted' IN
          /\ Len(s.interruption_durations) = s.interruption_count
          /\ s.interruption_count = Len(rec_outages')
          /\ s.outages = [i \in DOMAIN rec_outages' |-> outage_objs'[rec_outages'[i]]]
          /\ \A i \in DOMAIN s.outages :
               /\ s.outages[i].end # NoTime
               /\ s.interruption_durations[i] = s.outages[i].end - s.outages[i].start
C11_NoneLeftOut ==
    Persists =>
        /\ current_outage' = NoRef
        /\ DOMAIN outage_objs' = Range(rec_outages')
\* C11: one duration per stored outage, end - start, the force-closed one included
C11_DurationsMatchOutages == [][C11_OnePerOutage /\ C11_NoneLeftOut]_vars
\* a summary with an outage a success closed and one stop() force-closed
C11_Witness ==
    /\ persist_count = 1
    /\ CallerIdle
    /\ Persisted.interruption_count = 2
    /\ Persisted.interruption_durations = <<1, 0>>
    /\ Persisted.outages[2].end = Persisted.end

\* ------------------------------------------------------------------ C12
\* C12: the uptime ratio of the summary a stop() computes is success_pings /
\* total_pings when total_pings > 0, which is then the share of successful
\* samples among the samples recorded, and is 0 when no ping occurred.
Successes(q) == Cardinality({i \in DOMAIN q : q[i].success})
\* the fraction r equals n / d
Equals(r, n, d) == r[2] # 0 /\ d # 0 /\ r[1] * d = n * r[2]
C12_Ratio ==
    Persists =>
        LET r == Persisted'.uptime_ratio IN
          IF total_pings > 0
          THEN /\ Equals(r, success_pings, total_pings)
               /\ Equals(r, Successes(rec_pings), Len(rec_pings))
          ELSE /\ Equals(r, 0, 1)
               /\ rec_pings = <<>>
\* C12: uptime ratio = success_pings / total_pings, or 0 without pings
C12_UptimeRatio == [][C12_Ratio]_vars
\* two of three probes succeeded: the summary says 2/3
C12_Witness ==
    /\ persist_count = 1
    /\ CallerIdle
    /\ Persisted.total_pings = 3
    /\ Equals(Persisted.uptime_ratio, 2, 3)
    /\ Successes(Persisted.pings) = 2

\* ------------------------------------------------------------------ C13
\* C13 (as claimed): a stored SpeedSample that carries an error (the transfer
\* raised) has throughput 0 and an error text that is not empty.
C13_FailedSampleHasError ==
    \A i \in DOMAIN rec_speeds :
        rec_speeds[i].error # NoError =>
            /\ rec_speeds[i].throughput_mbps = 0
            /\ rec_speeds[i].error # ""

\* ------------------------------------------------------------------ C14
\* C14: whatever is recorded after a snapshot was returned, each of the three
\* lists of the snapshot reads as it did when it was returned, the OutageEvent
\* objects in it hold what they held then, and each list is a prefix of the
\* recorder's list of its kind.
IsPrefix(p, q) == Len(p) <= Len(q) /\ SubSeq(q, 1, Len(p)) = p
C14_SameContents ==
    held.taken =>
        /\ Contents(held.pings, rec_pings) = held.pings.items
        /\ Contents(held.speeds, rec_speeds) = held.speeds.items
        /\ Contents(held.outages, rec_outages) = held.outages.items
        /\ held.seen = [i \in DOMAIN held.outages.items |->
                           outage_objs[Contents(held.outages, rec_outages)[i]]]
C14_Prefix ==
    held.taken =>
        /\ IsPrefix(Contents(held.pings, rec_pings), rec_pings)
        /\ IsPrefix(Contents(held.speeds, rec_speeds), rec_speeds)
        /\ IsPrefix(Contents(held.outages, rec_outages), rec_outages)
\* C14: a snapshot is never changed by later record operations
C14_SnapshotIsolated == C14_SameContents /\ C14_Prefix
\* a snapshot with one item of each kind, and more of each recorded after it
C14_Witness ==
    /\ held.taken
    /\ Len(held.pings.items) > 0 /\ Len(rec_pings) > Len(held.pings.items)
    /\ Len(held.outages.items) > 0 /\ Len(rec_outages) > Len(held.outages.items)
    /\ Len(held.speeds.items) = 0 /\ Len(rec_speeds) > 0

\* ------------------------------------------------------------------ C15
\* C15 (as claimed): a stop() that persists leaves an index that is a mapping
\* holding this session's digest under its session id and, unchanged, every
\* entry the index held before under another id, and nothing else; an index
\* that was missing, unparsable or parsable but no mapping counts as empty.
EntriesBefore ==
    IF index.exists /\ index.parsable /\ index.mapping THEN index.entries ELSE <<>>
C15_Merged ==
    Persists =>
        /\ index'.exists /\ index'.parsable /\ index'.mapping
        /\ DOMAIN index'.entries = DOMAIN EntriesBefore \cup {OwnSessionId}
        /\ index'.entries[OwnSessionId] = IndexDigest(Persisted')
        /\ \A k \in DOMAIN EntriesBefore \ {OwnSessionId} :
             index'.entries[k] = EntriesBefore[k]
\* C15 (as claimed): the index update merges and is never fatal on bad input
C15_IndexReadMergeWrite == [][C15_Merged]_vars

\* ------------------------------------------------------------------ C16
\* C16 (as claimed): stop() sets the cancellation signal first; it passes each
\* join only when that loop has exited; it force-closes the open outage only
\* after both loops have exited, and persists only after that, from the store
\* as it then is; once a summary was persisted nothing is appended to the
\* store any more, and every probe that was started has its sample in the
\* persisted summary.
Enters(c, pc) == caller_pc[c] # pc /\ caller_pc'[c] = pc
Exited(thread, pc) == thread = NoRef \/ pc[thread] = "done"
C16_Order ==
    \A c \in Callers :
        /\ Enters(c, "stop_join_ping") => (caller_pc[c] = "idle" /\ stop_event')
        /\ Enters(c, "stop_join_speed") =>
              (caller_pc[c] = "stop_join_ping" /\ Exited(ping_thread, ping_pc))
        /\ Enters(c, "stop_close") =>
              (caller_pc[c] = "stop_join_speed" /\ Exited(speed_thread, speed_pc))
        /\ Enters(c, "stop_persist") =>
              (caller_pc[c] = "stop_close" /\ PingRunning = {} /\ SpeedRunning = {})
        /\ (Enters(c, "stop_join_ping") \/ Enters(c, "stop_join_speed")
                \/ Enters(c, "stop_close")) =>
              UNCHANGED <<tracker_vars, outage_objs, recorder_vars, disk_vars>>
        /\ caller_pc[c] = "stop_close" => UNCHANGED <<rec_pings, rec_speeds, disk_vars>>
C16_SummaryOfStore ==
    Persists =>
        /\ \E c \in Callers : caller_pc[c] = "stop_persist"
        /\ PingRunning = {} /\ SpeedRunning = {}
        /\ current_outage = NoRef
        /\ UNCHANGED <<recorder_vars, outage_objs>>
        /\ Persisted'.pings = rec_pings
        /\ Persisted'.speed_samples = rec_speeds
        /\ Persisted'.outages = [i \in DOMAIN rec_outages |-> outage_objs[rec_outages[i]]]
C16_NothingAfterSnapshot == persist_count >= 1 => UNCHANGED recorder_vars
C16_EveryProbeInSummary ==
    persist_count >= 1 =>
        /\ PingInFlight = {}
        /\ Persisted.pings = rec_pings
\* C16 (as claimed): the order of stop()'s steps, and nothing recorded after the snapshot
C16_StopOrder ==
    /\ [][C16_Order /\ C16_SummaryOfStore /\ C16_NothingAfterSnapshot]_vars
    /\ []C16_EveryProbeInSummary

\* ------------------------------------------------------------------ C17
\* C17: the force-close step of stop(), when an outage is open, appends that
\* outage to the store, once, with end = the time read at that step and start
\* and failure_count as they were, and leaves no open outage; when none is
\* open it appends nothing; no other step of stop() or start() appends an
\* outage, and no outage is in the store twice.
ForceCloses == \E c \in Callers : caller_pc[c] = "stop_close" /\ caller_pc'[c] # "stop_close"
CallerSteps == \E c \in Callers : caller_pc'[c] # caller_pc[c]
C17_ForceClose ==
    ForceCloses =>
        IF current_outage # NoRef
        THEN /\ rec_outages' = Append(rec_outages, current_outage)
             /\ current_outage \notin Range(rec_outages)
             /\ outage_objs' = [outage_objs EXCEPT ![current_outage].end = now']
             /\ now' >= now
             /\ now' >= outage_objs[current_outage].start
             /\ current_outage' = NoRef
        ELSE UNCHANGED <<rec_outages, outage_objs, current_outage>>
C17_OnlyForceCloseAppends ==
    (CallerSteps /\ ~ForceCloses) => UNCHANGED <<rec_outages, outage_objs, current_outage>>
C17_StoredOnce ==
    \A i, j \in DOMAIN rec_outages : rec_outages[i] = rec_outages[j] => i = j
\* C17: stop() force-closes the open outage, once, at shutdown time
C17_ForceClosedOnStop ==
    []C17_StoredOnce /\ [][C17_ForceClose /\ C17_OnlyForceCloseAppends]_vars
\* two failed probes and no success: the outage in the store is the one stop() closed
C17_Witness ==
    /\ api_log = <<"start", "stop", "stop">>
    /\ CallerIdle
    /\ Len(rec_pings) = 2
    /\ Successes(rec_pings) = 0
    /\ Len(rec_outages) = 1
    /\ outage_objs[rec_outages[1]].failure_count = 2
    /\ outage_objs[rec_outages[1]].end = 1
    /\ outage_objs[rec_outages[1]].start = 0

\* ------------------------------------------------------------------ C18
\* C18: the step that handles a successful probe while an outage is open
\* stores that outage, once, with end = the probe's timestamp, and leaves the
\* tracker Healthy (counter 0, no streak start, no open outage); the stored
\* failure_count is the number of failed probes since the last success, the
\* successful probe not counted; while an outage is open its failure_count is
\* that number after every failure.
SuccessCloses == success_pings' # success_pings /\ current_outage # NoRef
C18_Close ==
    SuccessCloses =>
        \E t \in MidUpdate :
            /\ ping_pc'[t] = "record"
            /\ rec_outages' = Append(rec_outages, current_outage)
            /\ current_outage \notin Range(rec_outages)
            /\ outage_objs' =
                 [outage_objs EXCEPT ![current_outage].end = ping_local[t].sample_time]
            /\ outage_objs'[current_outage].failure_count = StreakLength(Fed)
            /\ StreakLength(Fed') = 0
            /\ consecutive_failures' = 0
            /\ failure_streak_start' = NoTime
            /\ current_outage' = NoRef
C18_CountFollowsStreak ==
    current_outage # NoRef =>
        /\ outage_objs[current_outage].failure_count = StreakLength(Fed)
        /\ consecutive_failures = StreakLength(Fed)
\* C18: a success closes the open outage; failure_count is the streak's failures
C18_SuccessClosesOutage == []C18_CountFollowsStreak /\ [][C18_Close]_vars
\* two failures then a success: the stored outage counts 2 and the tracker is Healthy
C18_Witness ==
    /\ persist_count = 0
    /\ Len(rec_pings) = 3
    /\ ~rec_pings[1].success /\ ~rec_pings[2].success /\ rec_pings[3].success
    /\ Len(rec_outages) = 1
    /\ outage_objs[rec_outages[1]].failure_count = 2
    /\ outage_objs[rec_outages[1]].end = rec_pings[3].timestamp
    /\ consecutive_failure_threshold = 1
    /\ consecutive_failures = 0 /\ failure_streak_start = NoTime /\ current_outage = NoRef

\* ------------------------------------------------------------------ C19
\* C19: a reachability loop ends only at its loop test with the cancellation
\* signal set; an iteration whose probe returned nothing, raised a timeout or
\* raised another failure counts the ping, counts a failure and feeds it to
\* the tracker, and appends one PingSample with success = false, timeout and
\* error "timeout" for the timeout alone, the failure's message as error for
\* the other failure, no error for no value; then the loop is back at its loop
\* test; every stored PingSample has success exactly when it has a latency.
Failing == {"none", "timeout", "error"}
ExpectedSample(st, o) ==
    [timestamp |-> st,
     latency_ms |-> IF o.kind = "latency" THEN o.latency_ms ELSE NoLatency,
     success |-> o.kind = "latency",
     timeout |-> o.kind = "timeout",
     error |-> CASE o.kind = "timeout" -> "timeout"
                 [] o.kind = "error" -> o.message
                 [] OTHER -> NoError]
C19_LoopEndsOnlyOnCancel ==
    \A t \in Threads :
        (ping_pc[t] # "done" /\ ping_pc'[t] = "done") => (ping_pc[t] = "check" /\ stop_event)
C19_Iteration ==
    \A t \in Threads :
        /\ (ping_pc[t] = "check" /\ ping_pc'[t] = "count") =>
              ping_local'[t].outcome \in ProbeOutcomes
        /\ (ping_pc[t] = "count" /\ ping_pc'[t] # "count") =>
              (ping_pc'[t] = "track" /\ total_pings' = total_pings + 1)
        /\ (ping_pc[t] = "track" /\ ping_pc'[t] # "track") =>
              /\ ping_pc'[t] = "record"
              /\ ping_local[t].outcome.kind \in Failing =>
                    /\ failed_pings' = failed_pings + 1
                    /\ success_pings' = success_pings
                    /\ consecutive_failures' = consecutive_failures + 1
                    /\ failure_streak_start' # NoTime
        /\ (ping_pc[t] = "record" /\ ping_pc'[t] # "record") =>
              /\ ping_pc'[t] = "check"
              /\ rec_pings' = Append(rec_pings,
                    ExpectedSample(ping_local[t].sample_time, ping_local[t].outcome))
C19_SuccessIffLatency ==
    \A i \in DOMAIN rec_pings : rec_pings[i].success <=> rec_pings[i].latency_ms # NoLatency
\* C19: no probe failure ends the reachability loop; each gives one failed sample
C19_ProbeFailuresContained ==
    /\ []C19_SuccessIffLatency
    /\ [][C19_LoopEndsOnlyOnCancel /\ C19_Iteration]_vars
\* one probe returned nothing, one timed out, one raised: three failed samples, loop alive
C19_Witness ==
    /\ Len(rec_pings) = 3
    /\ {rec_pings[i].error : i \in DOMAIN rec_pings} = {NoError, "timeout", "boom"}
    /\ \E i \in DOMAIN rec_pings : rec_pings[i].timeout
    /\ Successes(rec_pings) = 0
    /\ failed_pings = 3 /\ total_pings = 3
    /\ ~stop_event
    /\ \E t \in Threads : ping_pc[t] = "check"

\* ------------------------------------------------------------------ C20
\* C20: with the cancellation signal set a reachability loop at its loop test
\* exits and starts no probe; a throughput loop in its wait exits and measures
\* nothing, so a sample recorded with the signal set is the initial one of a
\* thread or none; a probe in flight is completed and recorded; and a stop()
\* that was called returns, with both loops terminated.
InStop == \E c \in Callers : caller_pc[c] \in {"stop_join_ping", "stop_join_speed",
                                                "stop_close", "stop_persist"}
C20_NoNewProbe ==
    stop_event =>
        /\ \A t \in Threads :
             /\ (ping_pc[t] = "check" /\ ping_pc'[t] # "check") => ping_pc'[t] = "done"
             /\ (speed_pc[t] = "wait" /\ speed_pc'[t] # "wait") => speed_pc'[t] = "done"
             /\ (ping_pc[t] \in {"count", "track"}) => ping_pc'[t] # "done"
        /\ rec_speeds' # rec_speeds =>
              \E t \in Threads : speed_pc[t] = "first" /\ speed_pc'[t] = "wait"
        /\ Len(rec_pings') > Len(rec_pings) =>
              \E t \in Threads : ping_pc[t] = "record" /\ ping_pc'[t] = "check"
C20_StopReturns == InStop ~> (CallerIdle /\ PingRunning = {} /\ SpeedRunning = {})
\* C20: after cancellation at most the probe in flight completes, and stop() returns
C20_CancellationTerminates == [][C20_NoNewProbe]_vars /\ C20_StopReturns
\* stop() was called with a probe in flight: its sample is recorded, stop() has returned
C20_Witness ==
    /\ api_log = <<"start", "stop">>
    /\ CallerIdle
    /\ PingRunning = {} /\ SpeedRunning = {}
    /\ Len(rec_pings) = 2
    /\ Len(rec_speeds) = 1
    /\ Persisted.pings = rec_pings
    /\ Persisted.end = rec_pings[2].timestamp
    /\ stop_event

\* ------------------------------------------------------------------ C21
\* C21: a throughput loop measures once before its first wait and cannot end
\* without having done so; with a transfer endpoint every measurement, the
\* initial one and each one of the while loop, appends exactly one
\* SpeedSample stamped with the time it began, whether the transfer returned
\* or raised, and the while loop measures only while the cancellation signal
\* is clear; without an endpoint nothing is ever appended.
Measured == {t \in Threads : speed_pc[t] \in {"wait", "done"}}
C21_Measurement ==
    /\ \A t \in Threads :
         /\ speed_pc'[t] # speed_pc[t] =>
               \/ speed_pc[t] = "unborn" /\ speed_pc'[t] = "new"
               \/ speed_pc[t] = "new" /\ speed_pc'[t] = "first"
               \/ speed_pc[t] = "first" /\ speed_pc'[t] = "wait"
               \/ speed_pc[t] = "wait" /\ speed_pc'[t] = "done" /\ stop_event
         /\ (speed_pc[t] = "first" /\ speed_pc'[t] = "wait") =>
               Len(rec_speeds') = Len(rec_speeds) + (IF speed_blob_url THEN 1 ELSE 0)
    /\ rec_speeds' # rec_speeds =>
         /\ speed_blob_url
         /\ \E o \in DownloadOutcomes : rec_speeds' = Append(rec_speeds, SpeedSample(now', o))
         /\ \/ \E t \in Threads : speed_pc[t] = "first" /\ speed_pc'[t] = "wait"
            \/ ~stop_event /\ \E t \in Threads : speed_pc[t] = "wait" /\ speed_pc'[t] = "wait"
C21_SamplesCounted ==
    IF speed_blob_url
    THEN /\ Len(rec_speeds) >= Cardinality(Measured)
         /\ Len(rec_speeds) <= Cardinality(Measured) + MaxSpeeds
    ELSE rec_speeds = <<>>
\* C21: one sample per measurement with an endpoint, none without
C21_OneSamplePerMeasurement == []C21_SamplesCounted /\ [][C21_Measurement]_vars
\* the initial measurement raised, the next one returned: two samples, loop waiting
C21_Witness ==
    /\ speed_blob_url
    /\ Len(rec_speeds) = 2
    /\ rec_speeds[1].error # NoError /\ rec_speeds[1].throughput_mbps = 0
    /\ rec_speeds[2].error = NoError /\ rec_speeds[2].throughput_mbps > 0
    /\ Cardinality(Measured) = 1
    /\ \E t \in Threads : speed_pc[t] = "wait"
    /\ ~stop_event

\* ------------------------------------------------------------------ C22
\* C22 (as claimed): the consecutive-failure counter, the streak start, the
\* reference to the open outage and the open OutageEvent itself are written
\* only by the step of a reachability loop that handles a probe's outcome:
\* no step of the throughput loop and no step of a caller inside start() or
\* stop() changes them.
TrackerSteps == \E t \in Threads : ping_pc[t] = "track" /\ ping_pc'[t] = "record"
TrackerWritten ==
    \/ tracker_vars' # tracker_vars
    \/ current_outage # NoRef /\ outage_objs'[current_outage] # outage_objs[current_outage]
C22_WrittenByLoopOnly == TrackerWritten => TrackerSteps
\* C22 (as claimed): only the reachability loop touches the outage tracker
C22_TrackerOwnedByLoop == [][C22_WrittenByLoopOnly]_vars

\* ------------------------------------------------------------------ C23
\* C23 (as claimed): when start() was called and the stop() called after it
\* has returned, no loop is running and nothing is appended to the store any
\* more, whichever threads made the two calls and however their steps
\* interleaved; and stop() never computes its summary while a loop is running.
StopReturned ==
    /\ StartsCalled >= 1
    /\ api_log # <<>> /\ Last(api_log) = "stop"
    /\ caller_pc[1] = "idle"
C23_NoLoopAfterStop == StopReturned => (PingRunning = {} /\ SpeedRunning = {})
C23_NoRecordAfterStop == (StopReturned /\ StopReturned') => UNCHANGED recorder_vars
C23_FinalizesStoppedLoops == Persists => (PingRunning = {} /\ SpeedRunning = {})
\* C23 (as claimed): a completed stop() leaves no loop running, under any interleaving
C23_StopIsFinal ==
    /\ []C23_NoLoopAfterStop
    /\ [][C23_NoRecordAfterStop /\ C23_FinalizesStoppedLoops]_vars

\* ------------------------------------------------------------------ C24
\* C24 (as claimed): every outage in the store has start <= end, and starts no
\* earlier than the outage stored before it ended; the force-close of stop()
\* leaves the tracker with counter 0 and no streak start.
Stored(i) == outage_objs[rec_outages[i]]
C24_Ordered ==
    /\ \A i \in DOMAIN rec_outages : Stored(i).start <= Stored(i).end
    /\ \A i \in DOMAIN rec_outages :
         i > 1 => Stored(i).start >= Stored(i - 1).end
C24_ForceCloseResets ==
    (ForceCloses /\ current_outage # NoRef) =>
        (consecutive_failures' = 0 /\ failure_streak_start' = NoTime)
\* C24 (as claimed): stored outages are ordered and disjoint, also across stop() and start()
C24_OutagesOrdered == []C24_Ordered /\ [][C24_ForceCloseResets]_vars

\* ------------------------------------------------------------------ C25
\* C25: in the summary a stop() computes, total_pings is the number of samples
\* in its pings list, successful_pings the number of those with success and
\* failed_pings the number without; and whenever no reachability loop is
\* inside an iteration the store holds total_pings ping samples, of which
\* success_pings succeeded and failed_pings failed.
C25_SummaryConsistent ==
    Persists =>
        LET s == Persisted' IN
          /\ s.total_pings = Len(s.pings)
          /\ s.successful_pings = Successes(s.pings)
          /\ s.failed_pings = Len(s.pings) - Successes(s.pings)
C25_AtBoundaries ==
    PingInFlight = {} =>
        /\ Len(rec_pings) = total_pings
        /\ Successes(rec_pings) = success_pings
        /\ Len(rec_pings) - Successes(rec_pings) = failed_pings
\* C25: the summary's counters are the counts of its samples
C25_CountersMatchSamples == []C25_AtBoundaries /\ [][C25_SummaryConsistent]_vars
\* a summary of one sample was persisted; after a restart the store holds three
\* samples, one successful, and the counters say so
C25_Witness ==
    /\ api_log = <<"start", "stop", "start">>
    /\ persist_count = 1
    /\ Persisted.total_pings = 1
    /\ Len(rec_pings) = 3 /\ total_pings = 3
    /\ Successes(rec_pings) = 1 /\ failed_pings = 2
    /\ PingInFlight = {}

====
